---- MODULE Spec2Model ----
(***************************************************************************)
(* Bulk-job orchestration of zyxel-manager: the execute and cancel         *)
(* endpoints (backend/app/api/v1/bulk.py), the Celery worker task          *)
(* run_bulk_job and the beat task run_scheduled_jobs                       *)
(* (backend/app/tasks/bulk.py), the device adapters                        *)
(* (backend/app/adapters) and the deep-merge patch (services/diff.py);     *)
(* the snapshot store written by sync_device, trigger_backup and           *)
(* backup_device with its retention trimming, the preview endpoint and     *)
(* the drift detector (backend/app/tasks/drift.py); the death of a worker  *)
(* under task_acks_late (backend/app/tasks/celery_app.py); and the pure    *)
(* functions apply_patch and compute_diff called on their own, apply_patch *)
(* on Python's object heap.                                                *)
(*                                                                         *)
(* HTTP requests and Celery tasks run in separate processes over one       *)
(* database (READ COMMITTED, no row locks, no version columns), so every   *)
(* commit is a step and steps of different requests and tasks interleave.  *)
(***************************************************************************)
EXTENDS Integers, Sequences, FiniteSets, TLC

\* ------------------------------------------------------------------ bounds
MaxJobs    == 1   \* jobs created through POST /jobs
MaxTargets == 2   \* device ids in one job
MaxExec    == 2   \* POST /jobs/{id}/execute requests
MaxCancel  == 1   \* POST /jobs/{id}/cancel requests
MaxLoad    == 2   \* targets summed over the accepted execute requests
MaxReqs    == 2   \* sync and backup requests
MaxRetention == 2 \* greatest retention set through the settings endpoint
MaxSnapshots == 3 \* snapshots stored while the drift detector is observed
MaxChecks  == 3   \* drift checks of one device
MaxTemplates == 2 \* jobs created for the beat task to clone
MaxTicks   == 3   \* runs of run_scheduled_jobs
MaxDt      == 3   \* greatest distance of two runs, in units of 30 seconds
MaxCreateErrors == 1 \* create requests that the database refuses
MaxCrashes == 1 \* deaths of the worker during one task
MaxScalar  == 2   \* scalar values 1..MaxScalar in the arguments of apply_patch
MaxListLen == 2   \* elements of a list in the arguments of compute_diff

\* run_scheduled_jobs, line 171: a template fires when its previous cron
\* occurrence is at most 60 seconds back (two units of 30 seconds).
Grace == 2

\* ------------------------------------------------- configuration trees
\* A JSON value: a dict (function from keys to values) or a scalar.
Dict(f) == [t |-> "dict", v |-> f]
Val(n)  == [t |-> "val", v |-> n]
Null    == [t |-> "null", v |-> 0]
\* A JSON list of scalars: a sequence of values.
List(s) == [t |-> "list", v |-> s]
EmptyDict == Dict(<<>>)

\* dict.get(key, default)
Get(d, k, default) == IF k \in DOMAIN d.v THEN d.v[k] ELSE default

\* services/diff.py apply_patch: recursive merge of patch into base.
RECURSIVE apply_patch(_, _)
apply_patch(base, patch) ==
    LET b == base.v
        p == patch.v
    IN  Dict([k \in DOMAIN b \cup DOMAIN p |->
              IF k \in DOMAIN p
              THEN IF p[k].t = "dict" /\ k \in DOMAIN b /\ b[k].t = "dict"
                   THEN apply_patch(b[k], p[k])
                   ELSE p[k]
              ELSE b[k]])

\* ------------------------------------------------------------- devices
\* Rows of the devices table, and an id that no row carries.
Registered == {"d1"}
DeviceIds  == Registered \cup {"d0"}

Sections == {"ntp"}
Patches  == {Dict("servers" :> Val(2))}

\* adapters/mock.py _MOCK_CONFIG_TEMPLATE, cut down to one section.
MockConfigTemplate ==
    Dict("ntp" :> Dict("servers" :> Val(1) @@ "timezone" :> Val(0)))

\* adapters/mock.py MockAdapter.fetch_config
fetch_config(state, section) ==
    IF section = "full" THEN state ELSE Get(state, section, EmptyDict)

\* adapters/mock.py MockAdapter.apply_patch: the state after the call
device_apply_patch(state, section, patch) ==
    Dict([k \in DOMAIN state.v \cup {section} |->
          IF k = section
          THEN apply_patch(Get(state, section, EmptyDict), patch)
          ELSE state.v[k]])

\* ------------------------------------------------------------ ORM model
\* models/job.py: the attributes BulkJob declares.  The bulk_jobs table
\* also has the columns rollback_on_failure, cron_expression and
\* schedule_enabled (alembic 0003 and 0007), which the class does not map:
\* reading one of them through the ORM raises AttributeError.
BulkJobAttrs ==
    {"id", "name", "section", "patch_json", "status", "created_by",
     "created_at", "started_at", "completed_at", "celery_task_id"}

Terminal == {"completed", "partial", "failed", "cancelled"}

JobIds  == 1..MaxJobs
ExecIds == 1..MaxExec
NoTask  == 0

VARIABLES
    live,        \* device id -> configuration on the device
    jobs,        \* bulk_jobs rows: job id -> row
    targets,     \* bulk_job_targets rows: job id -> sequence of rows
    snapshots,   \* config_snapshots rows in insertion order
    execs,       \* execute requests: request id -> [pc, job]
    tasks,       \* run_bulk_job task instances: task id -> worker state
    revoked,     \* task ids revoked with terminate=True
    cancel_log   \* history: the cancel requests served, with the job's
                 \* status and its tasks' device calls in flight at the time

\* The snapshot store's requests (sync, backup) and their histories.
VARIABLES
    settings,    \* device_backup_settings: device id -> retention
    reqs,        \* sync and backup requests: request id -> request state
    created,     \* history: the snapshots inserted, in the order of insertion
    previews     \* the response of the latest preview request

\* The drift detector.
VARIABLES
    drift_detected,  \* devices.drift_detected: device id -> flag
    drift_events,    \* device id -> calls of fire_alert("drift_detected")
    checked          \* history: device id -> the checks run and what the
                     \* latest one saw of the store

drift_vars == <<drift_detected, drift_events, checked>>

\* The beat task and the creation of jobs.
VARIABLES
    now,               \* the time, in units of 30 seconds
    ticks,             \* history: the runs of run_scheduled_jobs, with the
                       \* time and the schedule columns at each
    sched,             \* bulk_jobs.schedule_enabled and cron_expression:
                       \* job id -> columns, for the jobs that have them set
    clone_log,         \* history: the clones created, with template and tick
    sched_dispatched,  \* the job ids the beat task has dispatched
    create_log         \* history: the create requests that failed

\* The pure functions of services/diff.py, called on their own.
VARIABLES
    call         \* one call: the function, its arguments and the heap
                 \* they live on, and the result once it has returned

rest == <<drift_vars, now, ticks, sched, clone_log, sched_dispatched,
          create_log, call>>

others == <<settings, reqs, created, previews, rest>>

vars == <<live, jobs, targets, snapshots, execs, tasks, revoked,
          cancel_log, others>>

\* models/backup.py DeviceBackupSettings.retention defaults to 10; a device
\* without a settings row is not trimmed, and neither is one with the
\* default as long as it has fewer snapshots than that.
DefaultRetention == 10

ReqIds == 1..MaxReqs

IdleReq ==
    [op |-> "none", pc |-> "none", device |-> "d1", version |-> 0,
     data |-> Null, id |-> 0, report |-> "none", failed_in |-> "none"]

IdleTask ==
    [pc |-> "none", job |-> 0, idx |-> 0, success_count |-> 0,
     fail_count |-> 0, res |-> <<>>, before |-> Null, after |-> Null,
     version |-> 0, alerts |-> 0, alerts_sent |-> 0, crashes |-> 0]

NoCall == [fn |-> "none"]

\* The database, the devices and the task queue after deployment.
InitProgram ==
    /\ live = [d \in Registered |-> MockConfigTemplate]
    /\ jobs = <<>>
    /\ targets = <<>>
    /\ snapshots = <<>>
    /\ execs = [r \in ExecIds |-> [pc |-> "none", job |-> 0]]
    /\ tasks = [r \in ExecIds |-> IdleTask]
    /\ revoked = {}
    /\ cancel_log = <<>>
    /\ settings = [d \in Registered |-> DefaultRetention]
    /\ reqs = [r \in ReqIds |-> IdleReq]
    /\ created = <<>>
    /\ previews = <<>>
    /\ drift_detected = [d \in Registered |-> FALSE]
    /\ drift_events = [d \in Registered |-> 0]
    /\ checked = [d \in Registered |->
                    [n |-> 0, seen |-> [count |-> 0, baselines |-> {}]]]
    /\ now = 0
    /\ ticks = <<>>
    /\ sched = <<>>
    /\ clone_log = <<>>
    /\ sched_dispatched = <<>>
    /\ create_log = <<>>

Init == InitProgram /\ call = NoCall

\* Sequences of device ids a job may be created with.
DeviceLists ==
    UNION {[1..n -> DeviceIds] : n \in 1..MaxTargets}

\* api/v1/bulk.py create_bulk_job: the job and one pending target per id,
\* committed together.
create_bulk_job(section, patch, device_ids) ==
    /\ jobs' = Append(jobs,
                 [status |-> "pending", celery_task_id |-> NoTask,
                  section |-> section, patch_json |-> patch,
                  rollback_on_failure |-> FALSE])
    /\ targets' = Append(targets,
                 [i \in 1..Len(device_ids) |->
                    [device_id |-> device_ids[i], status |-> "pending",
                     before_json |-> Null, after_json |-> Null]])
    /\ UNCHANGED <<others, live, snapshots, execs, tasks, revoked, cancel_log>>

\* POST /jobs, as often as the bound allows.
CreateBulkJob(section, patch, device_ids) ==
    /\ Len(jobs) < MaxJobs
    /\ create_bulk_job(section, patch, device_ids)

\* ------------------------------------------------- execute endpoint
SetJob(j, f, x) == [jobs EXCEPT ![j][f] = x]

\* The targets the accepted execute requests have put to work.
RECURSIVE Load(_)
Load(rs) ==
    IF rs = {} THEN 0
    ELSE LET r == CHOOSE x \in rs : TRUE
         IN  (IF execs[r].pc \in {"checked", "dispatched", "done"}
              THEN Len(targets[execs[r].job]) ELSE 0) + Load(rs \ {r})

\* ExecRead with the status test letting a queued job through.
ExecReadQueuedToo(r, j) ==
    /\ execs[r].pc = "none"
    /\ \A q \in 1..(r - 1) : execs[q].pc # "none"
    /\ j \in DOMAIN jobs
    /\ jobs[j].status \in {"pending", "queued"} =>
          Load(ExecIds) + Len(targets[j]) <= MaxLoad
    /\ execs' = [execs EXCEPT ![r] =
                   [pc  |-> IF jobs[j].status \notin {"pending", "queued"}
                            THEN "rejected" ELSE "checked",
                    job |-> j]]
    /\ UNCHANGED <<others, live, jobs, targets, snapshots, tasks, revoked,
                   cancel_log>>

\* api/v1/bulk.py execute_job, lines 109-113: load the job and test its
\* status; a job that is not pending is answered with HTTP 400.  Requests
\* are numbered in the order in which they read the job.
ExecRead(r, j) ==
    /\ execs[r].pc = "none"
    /\ \A q \in 1..(r - 1) : execs[q].pc # "none"
    /\ j \in DOMAIN jobs
    /\ jobs[j].status = "pending" =>
          Load(ExecIds) + Len(targets[j]) <= MaxLoad
    /\ execs' = [execs EXCEPT ![r] =
                   [pc  |-> IF jobs[j].status # "pending"
                            THEN "rejected" ELSE "checked",
                    job |-> j]]
    /\ UNCHANGED <<others, live, jobs, targets, snapshots, tasks, revoked,
                   cancel_log>>

\* execute_job, line 115: run_bulk_job.delay puts a task message on the
\* broker; the task id is the request's.
ExecDispatch(r) ==
    /\ execs[r].pc = "checked"
    /\ execs' = [execs EXCEPT ![r].pc = "dispatched"]
    /\ tasks' = [tasks EXCEPT ![r] =
                   [IdleTask EXCEPT !.pc = "queued", !.job = execs[r].job]]
    /\ UNCHANGED <<others, live, jobs, targets, snapshots, revoked, cancel_log>>

\* execute_job, lines 116-119: UPDATE bulk_jobs SET celery_task_id, status
\* from the session's copy of the row, whatever the row holds by now.
ExecCommit(r) ==
    /\ execs[r].pc = "dispatched"
    /\ execs' = [execs EXCEPT ![r].pc = "done"]
    /\ jobs' = [jobs EXCEPT ![execs[r].job].celery_task_id = r,
                            ![execs[r].job].status = "queued"]
    /\ UNCHANGED <<others, live, targets, snapshots, tasks, revoked, cancel_log>>

\* --------------------------------------------------- cancel endpoint
\* api/v1/bulk.py cancel_job: revoke the stored task id, if any, with
\* terminate=True, then write status cancelled.  No test of the status.
CancelJob(j) ==
    /\ j \in DOMAIN jobs
    /\ Len(cancel_log) < MaxCancel
    /\ revoked' = IF jobs[j].celery_task_id # NoTask
                  THEN revoked \cup {jobs[j].celery_task_id}
                  ELSE revoked
    /\ jobs' = SetJob(j, "status", "cancelled")
    /\ cancel_log' = Append(cancel_log,
          [job |-> j, prev |-> jobs[j].status,
           applying |-> {tk \in ExecIds : /\ tasks[tk].job = j
                                          /\ tasks[tk].pc = "applying"}])
    /\ UNCHANGED <<others, live, targets, snapshots, execs, tasks>>

\* Terminate reaching every task of a cancelled job, revoked or not.
TerminateUnrevoked(tk) ==
    /\ tasks[tk].pc \in {"queued", "loop", "applying", "snapshot",
                         "finished", "alerted"}
    /\ jobs[tasks[tk].job].status = "cancelled"
    /\ tasks' = [tasks EXCEPT ![tk] =
                   [IdleTask EXCEPT !.pc = "terminated", !.job = tasks[tk].job]]
    /\ UNCHANGED <<others, live, jobs, targets, snapshots, execs, revoked, cancel_log>>

\* The worker's reaction to the revoke broadcast: a revoked task that has
\* not started is discarded, and the pool process executing a revoked
\* task is terminated wherever it is.  A device call in flight is cut
\* off; the device may or may not have carried it out.
Running == {"loop", "applying", "snapshot", "finished", "alerted"}

Terminate(tk) ==
    /\ tk \in revoked
    /\ tasks[tk].pc \in Running \cup {"queued"}
    /\ tasks' = [tasks EXCEPT ![tk] =
                   [IdleTask EXCEPT !.pc = "terminated", !.job = tasks[tk].job]]
    /\ \E carried \in BOOLEAN :
         LET j == tasks[tk].job
             d == targets[j][tasks[tk].idx].device_id
         IN  live' = IF tasks[tk].pc = "applying" /\ carried
                     THEN [live EXCEPT ![d] =
                             device_apply_patch(live[d], jobs[j].section,
                                                jobs[j].patch_json)]
                     ELSE live
    /\ UNCHANGED <<others, jobs, targets, snapshots, execs, revoked, cancel_log>>

\* ------------------------------------------------------ worker task
SetTask(tk, f, x) == [tasks EXCEPT ![tk][f] = x]

\* The target's row after the worker's session flushes status, before_json
\* and after_json (an UPDATE by primary key of the attributes it set).
SetTarget(j, i, status, before, after) ==
    [targets EXCEPT ![j][i].status = status,
                    ![j][i].before_json = before,
                    ![j][i].after_json = after]

\* tasks/bulk.py lines 78-84: the latest version of (device, section) + 1.
NextVersion(device_id, section) ==
    LET vs == {snapshots[i].version : i \in
                 {k \in 1..Len(snapshots) :
                    /\ snapshots[k].device_id = device_id
                    /\ snapshots[k].section = section}}
    IN  IF vs = {} THEN 1
        ELSE (CHOOSE v \in vs : \A w \in vs : w <= v) + 1

\* History: while request r or task tk creates its snapshot, another
\* snapshot-creating operation is in progress (a sync or backup request
\* between its read of the version and its commit, or a run of a job).
OtherActive(r, tk) ==
    \/ \E q \in ReqIds \ {r} : reqs[q].pc = "read"
    \/ \E t \in ExecIds \ {tk} : tasks[t].pc \in Running \cup {"queued"}

\* run_bulk_job, lines 32-44: load the job, commit status running, load
\* the targets.
WorkerStart(tk) ==
    /\ tasks[tk].pc = "queued"
    /\ jobs' = SetJob(tasks[tk].job, "status", "running")
    /\ tasks' = [tasks EXCEPT ![tk].pc = "loop", ![tk].idx = 1]
    /\ UNCHANGED <<others, live, targets, snapshots, execs, revoked, cancel_log>>

\* TargetFailed leaving the loop at the first failure.
TargetFailedAborts(tk, before, after) ==
    LET w == tasks[tk]
    IN  /\ targets' = SetTarget(w.job, w.idx, "failed", before, after)
        /\ tasks' = [tasks EXCEPT ![tk].pc = "loop",
                                  ![tk].idx = Len(targets[w.job]) + 1,
                                  ![tk].fail_count = w.fail_count + 1,
                                  ![tk].res = Append(w.res, "failed"),
                                  ![tk].before = Null,
                                  ![tk].after = Null]

\* The worker records a failed target (lines 49-54, 90-93 or 96-104) and
\* moves to the next one.
TargetFailed(tk, before, after) ==
    LET w == tasks[tk]
    IN  /\ targets' = SetTarget(w.job, w.idx, "failed", before, after)
        /\ tasks' = [tasks EXCEPT ![tk].pc = "loop",
                                  ![tk].idx = w.idx + 1,
                                  ![tk].fail_count = w.fail_count + 1,
                                  ![tk].res = Append(w.res, "failed"),
                                  ![tk].before = Null,
                                  ![tk].after = Null]

\* run_bulk_job, lines 46-69: the next target.  A device id without a
\* row is failed at once; otherwise the device's section is fetched
\* (which may raise), before, after and diff are computed and the
\* adapter's apply_patch is called.
TargetBegin(tk, fetched) ==
    LET w == tasks[tk]
        j == w.job
        d == targets[j][w.idx].device_id
    IN  /\ w.pc = "loop"
        /\ w.idx <= Len(targets[j])
        /\ IF d \notin Registered \/ ~fetched
           THEN TargetFailed(tk, targets[j][w.idx].before_json,
                             targets[j][w.idx].after_json)
           ELSE LET before == fetch_config(live[d], jobs[j].section)
                IN  /\ tasks' = [tasks EXCEPT
                          ![tk].pc = "applying",
                          ![tk].before = before,
                          ![tk].after = apply_patch(before, jobs[j].patch_json)]
                    /\ UNCHANGED targets
        /\ UNCHANGED <<others, live, jobs, snapshots, execs, revoked, cancel_log>>

\* run_bulk_job, lines 69-100: adapter.apply_patch returns or raises.
\* On success the device carries the patch, the target is committed as
\* success with the log line, and the latest snapshot version is read.
ApplyOutcomes == {"success", "refused", "raised"}

TargetApplied(tk, outcome) ==
    LET w == tasks[tk]
        j == w.job
        d == targets[j][w.idx].device_id
    IN  /\ w.pc = "applying"
        /\ IF outcome = "success"
           THEN /\ live' = [live EXCEPT ![d] =
                     device_apply_patch(live[d], jobs[j].section,
                                        jobs[j].patch_json)]
                /\ targets' = SetTarget(j, w.idx, "success", w.before, w.after)
                /\ tasks' = [tasks EXCEPT
                     ![tk].pc = "snapshot",
                     ![tk].success_count = w.success_count + 1,
                     ![tk].res = Append(w.res, "success"),
                     ![tk].version = NextVersion(d, jobs[j].section)]
           ELSE /\ TargetFailed(tk, w.before, w.after)
                /\ UNCHANGED live
        /\ UNCHANGED <<others, jobs, snapshots, execs, revoked, cancel_log>>

\* run_bulk_job, lines 85-88 and 102-104: the snapshot row is inserted and
\* committed with the target's executed_at.
TargetSnapshot(tk) ==
    LET w == tasks[tk]
        j == w.job
        d == targets[j][w.idx].device_id
    IN  /\ w.pc = "snapshot"
        /\ snapshots' = Append(snapshots,
              [id |-> Len(created) + 1, device_id |-> d,
               section |-> jobs[j].section, version |-> w.version,
               data_json |-> w.after, is_baseline |-> FALSE,
               triggered_by |-> "sync"])
        /\ created' = Append(created,
              [id |-> Len(created) + 1, device_id |-> d,
               section |-> jobs[j].section, version |-> w.version,
               alone |-> /\ ~OtherActive(0, tk)
                         /\ w.version = NextVersion(d, jobs[j].section)])
        /\ tasks' = [tasks EXCEPT ![tk].pc = "loop",
                                  ![tk].idx = w.idx + 1,
                                  ![tk].before = Null,
                                  ![tk].after = Null,
                                  ![tk].version = 0]
        /\ UNCHANGED <<rest, settings, reqs, previews, live, jobs, targets, execs,
                       revoked, cancel_log>>

\* FinalStatus with a failure ending the job in failed.
FinalStatusFailed(fail_count) ==
    IF fail_count = 0 THEN "completed" ELSE "failed"

\* run_bulk_job, lines 106-110: the final status.
FinalStatus(fail_count) == IF fail_count = 0 THEN "completed" ELSE "partial"

WorkerFinish(tk) ==
    LET w == tasks[tk]
    IN  /\ w.pc = "loop"
        /\ w.idx > Len(targets[w.job])
        /\ jobs' = SetJob(w.job, "status", FinalStatus(w.fail_count))
        /\ tasks' = SetTask(tk, "pc", "finished")
        /\ UNCHANGED <<others, live, targets, snapshots, execs, revoked, cancel_log>>

\* run_bulk_job, line 112 with no failure: the task returns.
WorkerReturn(tk) ==
    /\ tasks[tk].pc = "finished"
    /\ tasks[tk].fail_count = 0
    /\ tasks' = SetTask(tk, "pc", "done")
    /\ UNCHANGED <<others, live, jobs, targets, snapshots, execs, revoked,
                   cancel_log>>

\* FireAlert without the test of fail_count.
FireAlertAlways(tk, sent) ==
    /\ tasks[tk].pc = "finished"
    /\ tasks' = [tasks EXCEPT
          ![tk].pc = "alerted",
          ![tk].alerts = tasks[tk].alerts + 1,
          ![tk].alerts_sent = tasks[tk].alerts_sent + (IF sent THEN 1 ELSE 0)]
    /\ UNCHANGED <<others, live, jobs, targets, snapshots, execs, revoked,
                   cancel_log>>

\* run_bulk_job, lines 112-122: fire_alert.delay("job_failed", ...) is
\* called; the call puts the event on the broker or raises, and an
\* exception is swallowed.
FireAlert(tk, sent) ==
    /\ tasks[tk].pc = "finished"
    /\ tasks[tk].fail_count > 0
    /\ tasks' = [tasks EXCEPT
          ![tk].pc = "alerted",
          ![tk].alerts = tasks[tk].alerts + 1,
          ![tk].alerts_sent = tasks[tk].alerts_sent + (IF sent THEN 1 ELSE 0)]
    /\ UNCHANGED <<others, live, jobs, targets, snapshots, execs, revoked,
                   cancel_log>>

\* run_bulk_job, line 125: job.rollback_on_failure is read.  BulkJob
\* declares no such attribute, so the read raises AttributeError and the
\* task ends there; lines 126-142 are never reached.
RollbackCheck(tk) ==
    /\ tasks[tk].pc = "alerted"
    /\ tasks' = SetTask(tk, "pc",
                        IF "rollback_on_failure" \in BulkJobAttrs
                        THEN "rollback" ELSE "raised")
    /\ UNCHANGED <<others, live, jobs, targets, snapshots, execs, revoked,
                   cancel_log>>

\* The bulk_jobs.rollback_on_failure column (alembic 0007) is written by no
\* endpoint; an operator sets it in the database before the job is executed.
SetRollbackOnFailure(j) ==
    /\ j \in DOMAIN jobs
    /\ jobs[j].status = "pending"
    /\ ~jobs[j].rollback_on_failure
    /\ \A r \in ExecIds : execs[r].pc = "none"
    /\ jobs' = SetJob(j, "rollback_on_failure", TRUE)
    /\ UNCHANGED <<others, live, targets, snapshots, execs, tasks, revoked,
                   cancel_log>>

\* ------------------------------------------------------ worker death
\* The process running the task dies.  What the task held in memory is
\* gone; what it committed stays; a device call in flight may or may not
\* have been carried out.  celery_app.py line 30 sets task_acks_late, so
\* the task's message is acknowledged only after the task has returned:
\* when the pool process alone dies, the worker's main process
\* acknowledges the message for it (task_reject_on_worker_lost is not
\* set); when the whole worker dies, the message stays unacknowledged.
WorkerLost(tk, whole) ==
    LET w == tasks[tk]
        j == w.job
    IN  /\ w.pc \in Running
        /\ w.crashes < MaxCrashes
        /\ tasks' = [tasks EXCEPT ![tk] =
              [IdleTask EXCEPT !.pc = IF whole THEN "unacked" ELSE "lost",
                               !.job = j, !.crashes = w.crashes + 1]]
        /\ \E carried \in BOOLEAN :
             live' = IF w.pc = "applying" /\ carried
                     THEN [live EXCEPT ![targets[j][w.idx].device_id] =
                             device_apply_patch(@, jobs[j].section,
                                                jobs[j].patch_json)]
                     ELSE live
        /\ UNCHANGED <<others, jobs, targets, snapshots, execs, revoked,
                       cancel_log>>

\* The broker (Redis, celery_app.py line 8) hands a message that was not
\* acknowledged to a worker again once its visibility timeout has passed:
\* run_bulk_job starts anew with the same job id.
Redeliver(tk) ==
    /\ tasks[tk].pc = "unacked"
    /\ tasks' = SetTask(tk, "pc", "queued")
    /\ UNCHANGED <<others, live, jobs, targets, snapshots, execs, revoked,
                   cancel_log>>

\* ------------------------------------------------------ snapshot store
\* sync_device, trigger_backup and backup_device read the latest version
\* of the device over all its sections (no filter on section) and add 1.
NextDeviceVersion(device_id) ==
    LET vs == {snapshots[k].version : k \in
                 {i \in 1..Len(snapshots) :
                    snapshots[i].device_id = device_id}}
    IN  IF vs = {} THEN 1
        ELSE (CHOOSE v \in vs : \A w \in vs : w <= v) + 1

\* sync_device (api/v1/devices.py), trigger_backup (api/v1/backups.py) and
\* backup_device (tasks/backup.py).
StoreOps == {"sync", "trigger", "backup"}

\* The retentions PUT /{device_id}/settings is called with.
Retentions == 1..MaxRetention

\* api/v1/backups.py update_backup_settings
UpdateBackupSettings(d, retention) ==
    /\ d \in Registered
    /\ settings[d] # retention
    /\ settings' = [settings EXCEPT ![d] = retention]
    /\ UNCHANGED <<rest, live, jobs, targets, snapshots, execs, tasks, revoked,
                   cancel_log, reqs, created, previews>>

\* The first part of the three operations: the device row is loaded (404
\* or an error result without it), the full configuration is fetched from
\* the device (HTTP 502 or an exception of the task when the fetch
\* raises) and the version is computed from the latest snapshot.
StoreRead(r, op, d, fetched) ==
    /\ reqs[r].pc = "none"
    /\ \A q \in 1..(r - 1) : reqs[q].pc # "none"
    /\ reqs' = [reqs EXCEPT ![r] =
         IF d \notin Registered
         THEN [IdleReq EXCEPT !.op = op, !.pc = "done", !.device = d,
                              !.report = "not_found"]
         ELSE IF ~fetched
         THEN [IdleReq EXCEPT !.op = op, !.pc = "done", !.device = d,
                              !.report = "error"]
         ELSE [IdleReq EXCEPT !.op = op, !.pc = "read", !.device = d,
                              !.version = NextDeviceVersion(d),
                              !.data = fetch_config(live[d], "full")]]
    /\ UNCHANGED <<rest, live, jobs, targets, snapshots, execs, tasks, revoked,
                   cancel_log, settings, created, previews>>

\* The rows of a device in the order of created_at.
DeviceSnapshots(rows, device_id) ==
    SelectSeq(rows, LAMBDA s : s.device_id = device_id)

\* all_snaps[:excess]: the ids of the first excess rows.
Oldest(all, excess) ==
    {all[i].id : i \in {k \in 1..Len(all) : k <= excess}}

\* The number of rows the retention block deletes.  Both operations count
\* the rows after the new one has reached the table (trigger_backup's query
\* flushes the session first, backup_device flushes itself), so the new
\* row is one of all_snaps; trigger_backup adds 1 to the difference
\* (api/v1/backups.py line 136), backup_device does not (tasks/backup.py
\* line 64).
Excess(op, count, retention) ==
    IF op = "trigger" THEN count - retention + 1 ELSE count - retention

StoreFails == {"none", "trim", "commit"}

\* InsertVersion taking the version from the table at the insert.
InsertVersionAtCommit(version, device_id) == NextDeviceVersion(device_id)

\* version=version: the row carries the version computed at the read,
\* whatever has been inserted for the device since.
InsertVersion(version, device_id) == version

\* The second part: the row is added, the retention block deletes the
\* oldest rows of the device, and everything is committed in one
\* transaction.  A database error in the retention block or in the commit
\* ends the transaction without the row: trigger_backup answers HTTP 500,
\* sync_device and backup_device let the exception through.
\* trigger_backup refreshes the new row after the commit, which raises
\* when the retention block has deleted it (HTTP 500, the commit stays).
StoreCommit(r, fail) ==
    LET q == reqs[r]
        d == q.device
        id == Len(created) + 1
        row == [id |-> id, device_id |-> d, section |-> "full",
                version |-> InsertVersion(q.version, d),
                data_json |-> q.data, is_baseline |-> FALSE,
                triggered_by |-> CASE q.op = "sync" -> "sync"
                                   [] q.op = "trigger" -> "manual"
                                   [] OTHER -> "schedule"]
        added == Append(snapshots, row)
        all == DeviceSnapshots(added, d)
        trims == q.op # "sync" /\ settings[d] # DefaultRetention
        excess == IF trims THEN Excess(q.op, Len(all), settings[d]) ELSE 0
        gone == Oldest(all, excess)
    IN  /\ q.pc = "read"
        /\ fail = "trim" => trims
        /\ IF fail # "none"
           THEN /\ reqs' = [reqs EXCEPT ![r].pc = "done",
                                        ![r].report = "error",
                                        ![r].failed_in = fail]
                /\ UNCHANGED <<snapshots, created>>
           ELSE /\ snapshots' = SelectSeq(added, LAMBDA s : s.id \notin gone)
                /\ created' =
                      IF id \in gone THEN created
                      ELSE Append(created,
                             [id |-> id, device_id |-> d, section |-> "full",
                              version |-> row.version,
                              alone |-> /\ ~OtherActive(r, 0)
                                        /\ q.version = NextDeviceVersion(d)])
                /\ reqs' = [reqs EXCEPT
                      ![r].pc = "done",
                      ![r].id = id,
                      ![r].report = IF q.op = "trigger" /\ id \in gone
                                    THEN "error" ELSE "ok"]
        /\ UNCHANGED <<rest, live, jobs, targets, execs, tasks, revoked,
                       cancel_log, settings, previews>>

\* api/v1/backups.py delete_backup: the row with the given id is deleted,
\* whichever it is (the latest, the baseline); a missing id is answered
\* with HTTP 404.
DeleteBackup(i) ==
    /\ i \in 1..Len(snapshots)
    /\ snapshots' = SelectSeq(snapshots, LAMBDA s : s.id # snapshots[i].id)
    /\ UNCHANGED <<rest, live, jobs, targets, execs, tasks, revoked,
                   cancel_log, settings, reqs, created, previews>>

\* ------------------------------------------------------------- preview
\* The rows that .order_by(version.desc()).first() may return for
\* (device, section): a row of the highest version, any of them when
\* several carry it.
LatestRows(device_id, section) ==
    LET rows == {i \in 1..Len(snapshots) :
                   /\ snapshots[i].device_id = device_id
                   /\ snapshots[i].section = section}
    IN  {i \in rows : \A k \in rows :
                         snapshots[k].version <= snapshots[i].version}

\* PreviewJob taking before from the device instead of the store.
PreviewJobFromDevice(j) ==
    /\ j \in DOMAIN jobs
    /\ previews' = [i \in 1..Len(targets[j]) |->
         LET d == targets[j][i].device_id
             before == IF d \in Registered
                       THEN fetch_config(live[d], jobs[j].section)
                       ELSE EmptyDict
         IN  [device_id |-> d, shown |-> d \in Registered,
              before |-> before,
              after |-> apply_patch(before, jobs[j].patch_json)]]
    /\ UNCHANGED <<rest, live, jobs, targets, snapshots, execs, tasks, revoked,
                   cancel_log, settings, reqs, created>>

\* api/v1/bulk.py preview_job: for every target whose device has a row,
\* before is the data of the latest snapshot of (device, job.section), or
\* {} without one, and after is the patch merged into before.  Targets
\* whose device has no row are left out (shown is FALSE).
PreviewJob(j) ==
    /\ j \in DOMAIN jobs
    /\ \E f \in [1..Len(targets[j]) -> 0..Len(snapshots)] :
         /\ \A i \in 1..Len(targets[j]) :
              LET L == LatestRows(targets[j][i].device_id, jobs[j].section)
              IN  IF L = {} THEN f[i] = 0 ELSE f[i] \in L
         /\ previews' = [i \in 1..Len(targets[j]) |->
              LET before == IF f[i] = 0 THEN EmptyDict
                            ELSE snapshots[f[i]].data_json
              IN  [device_id |-> targets[j][i].device_id,
                   shown |-> targets[j][i].device_id \in Registered,
                   before |-> before,
                   after |-> apply_patch(before, jobs[j].patch_json)]]
    /\ UNCHANGED <<rest, live, jobs, targets, snapshots, execs, tasks, revoked,
                   cancel_log, settings, reqs, created>>

\* ------------------------------------------------------ drift detector
\* checksum = sha256(json.dumps(config)): two snapshots carry the same
\* checksum exactly when their serialised data is the same (collisions of
\* SHA-256 set aside), so the data stands for its digest.
Checksum(data_json) == data_json

\* .order_by(version.desc()).first() over the rows with the indexes in S.
FirstByVersion(S) ==
    {i \in S : \A k \in S : snapshots[k].version <= snapshots[i].version}

FullRows(device_id) ==
    {i \in 1..Len(snapshots) : /\ snapshots[i].device_id = device_id
                               /\ snapshots[i].section = "full"}

BaselineRows(device_id) ==
    {i \in FullRows(device_id) : snapshots[i].is_baseline}

\* History: what a check of the device sees of the store.
StoreSeen(device_id) ==
    [count |-> Len(created),
     baselines |-> {snapshots[i].id : i \in BaselineRows(device_id)}]

\* CheckDrift calling fire_alert whenever the latest snapshot differs from
\* the baseline, whatever the flag.
CheckDriftAlertsWhileDrifting(d) ==
    /\ checked[d].n < MaxChecks
    /\ checked' = [checked EXCEPT ![d] =
                     [n |-> checked[d].n + 1, seen |-> StoreSeen(d)]]
    /\ IF BaselineRows(d) = {}
       THEN UNCHANGED <<drift_detected, drift_events>>
       ELSE \E b \in FirstByVersion(BaselineRows(d)),
               l \in FirstByVersion(FullRows(d)) :
              LET drift == Checksum(snapshots[l].data_json)
                             # Checksum(snapshots[b].data_json)
              IN  IF snapshots[l].id = snapshots[b].id
                  THEN UNCHANGED <<drift_detected, drift_events>>
                  ELSE /\ drift_detected' = [drift_detected EXCEPT ![d] = drift]
                       /\ drift_events' = [drift_events EXCEPT ![d] =
                             @ + (IF drift THEN 1 ELSE 0)]
    /\ UNCHANGED <<now, ticks, sched, clone_log, sched_dispatched, create_log, call,
                   live, jobs, targets, snapshots, execs, tasks, revoked,
                   cancel_log, settings, reqs, created, previews>>

\* tasks/drift.py _check_device_drift, called by check_drift_all for every
\* device: the latest baseline and the latest snapshot of section full are
\* compared by checksum; the flag is set, with a call of
\* fire_alert.delay("drift_detected") whose exception is swallowed, when
\* they differ and the flag is clear, and cleared when they agree and it
\* is set.
CheckDrift(d) ==
    /\ checked[d].n < MaxChecks
    /\ checked' = [checked EXCEPT ![d] =
                     [n |-> checked[d].n + 1, seen |-> StoreSeen(d)]]
    /\ IF BaselineRows(d) = {}
       THEN UNCHANGED <<drift_detected, drift_events>>
       ELSE \E b \in FirstByVersion(BaselineRows(d)),
               l \in FirstByVersion(FullRows(d)) :
              LET drift == Checksum(snapshots[l].data_json)
                             # Checksum(snapshots[b].data_json)
              IN  IF snapshots[l].id = snapshots[b].id
                  THEN UNCHANGED <<drift_detected, drift_events>>
                  ELSE IF drift /\ ~drift_detected[d]
                  THEN /\ drift_detected' = [drift_detected EXCEPT ![d] = TRUE]
                       /\ drift_events' = [drift_events EXCEPT ![d] = @ + 1]
                  ELSE IF ~drift /\ drift_detected[d]
                  THEN /\ drift_detected' = [drift_detected EXCEPT ![d] = FALSE]
                       /\ UNCHANGED drift_events
                  ELSE UNCHANGED <<drift_detected, drift_events>>
    /\ UNCHANGED <<now, ticks, sched, clone_log, sched_dispatched, create_log, call,
                   live, jobs, targets, snapshots, execs, tasks, revoked,
                   cancel_log, settings, reqs, created, previews>>

\* config_snapshots.is_baseline is written by no endpoint and no task; an
\* operator marks a snapshot of section full as the baseline in the
\* database.
SetBaseline(i) ==
    /\ i \in 1..Len(snapshots)
    /\ snapshots[i].section = "full"
    /\ ~snapshots[i].is_baseline
    /\ snapshots' = [snapshots EXCEPT ![i].is_baseline = TRUE]
    /\ UNCHANGED <<live, jobs, targets, execs, tasks, revoked, cancel_log,
                   settings, reqs, created, previews, rest>>

\* The configuration is changed on the device itself, or changed back:
\* what the detector is there to notice.
DeviceChanged(d) ==
    /\ d \in Registered
    /\ live' = [live EXCEPT ![d] =
                  IF live[d] = MockConfigTemplate
                  THEN device_apply_patch(live[d], "ntp",
                                          Dict("servers" :> Val(2)))
                  ELSE MockConfigTemplate]
    /\ UNCHANGED <<jobs, targets, snapshots, execs, tasks, revoked,
                   cancel_log, others>>

\* A request that has been answered leaves; its slot serves the next one.
ReqLeaves(r) ==
    /\ reqs[r].pc = "done"
    /\ \A q \in ReqIds : reqs[q].pc # "read"
    /\ reqs' = [q \in ReqIds |-> IdleReq]
    /\ UNCHANGED <<live, jobs, targets, snapshots, execs, tasks, revoked,
                   cancel_log, settings, created, previews, rest>>

\* ---------------------------------------------------------- beat task
\* Time is counted in units of 30 seconds.  bulk_jobs.schedule_enabled
\* (server default false) and bulk_jobs.cron_expression (nullable) of a job
\* that nobody has scheduled:
NotScheduled == [schedule_enabled |-> FALSE, cron |-> [kind |-> "null", period |-> 0]]

Sched(j) == IF j \in DOMAIN sched THEN sched[j] ELSE NotScheduled

\* Cron expressions: one that fires every two minutes, and a malformed one
\* (croniter raises on it).
Crons == {[kind |-> "every", period |-> 4], [kind |-> "bad", period |-> 0]}

\* The two columns are written by no endpoint; an operator sets them in
\* the database to make a job a template.
SetSchedule(j, cron) ==
    /\ j \in DOMAIN jobs
    /\ j \notin DOMAIN sched
    /\ sched' = (j :> [schedule_enabled |-> TRUE, cron |-> cron]) @@ sched
    /\ UNCHANGED <<live, jobs, targets, snapshots, execs, tasks, revoked,
                   cancel_log, settings, reqs, created, previews, drift_vars,
                   now, ticks, clone_log, sched_dispatched, create_log, call>>

\* croniter(expr, now).get_prev: the latest occurrence before now.
get_prev(cron, t) == ((t - 1) \div cron.period) * cron.period

\* run_scheduled_jobs, lines 165-175, for one template at time t: the
\* template is due when its cron expression parses and its previous
\* occurrence is at most 60 seconds back.
Due(cols, t) ==
    /\ cols.schedule_enabled
    /\ cols.cron.kind = "every"
    /\ t - get_prev(cols.cron, t) <= Grace

\* The due templates of a tick at time t, in the order of their ids.
RECURSIVE DueSeq(_, _)
DueSeq(j, t) ==
    IF j > Len(jobs) THEN <<>>
    ELSE (IF Due(Sched(j), t) THEN <<j>> ELSE <<>>) \o DueSeq(j + 1, t)

\* RunScheduledJobs dispatching the due template itself.
RunScheduledJobsRunsTemplate(dt) ==
    LET t == now + dt
        D == DueSeq(1, t)
    IN  /\ Len(ticks) < MaxTicks
        /\ now' = t
        /\ ticks' = Append(ticks, [at |-> t, sched |-> sched])
        /\ sched_dispatched' = sched_dispatched \o D
        /\ jobs' = [j \in DOMAIN jobs |->
                      IF Due(Sched(j), t)
                      THEN [jobs[j] EXCEPT !.status = "queued"] ELSE jobs[j]]
        /\ UNCHANGED <<live, targets, snapshots, execs, tasks, revoked,
                       cancel_log, settings, reqs, created, previews,
                       drift_vars, sched, clone_log, create_log, call>>

\* RunScheduledJobs cloning every due template with its schedule columns.
RunScheduledJobsClonesSchedule(dt) ==
    LET t == now + dt
        D == DueSeq(1, t)
        n == Len(jobs)
    IN  /\ Len(ticks) < MaxTicks
        /\ now' = t
        /\ ticks' = Append(ticks, [at |-> t, sched |-> sched])
        /\ jobs' = jobs \o [k \in 1..Len(D) |->
              [status |-> "pending", celery_task_id |-> NoTask,
               section |-> jobs[D[k]].section,
               patch_json |-> jobs[D[k]].patch_json,
               rollback_on_failure |-> FALSE]]
        /\ targets' = targets \o [k \in 1..Len(D) |->
              [i \in 1..Len(targets[D[k]]) |->
                 [device_id |-> targets[D[k]][i].device_id,
                  status |-> "pending", before_json |-> Null,
                  after_json |-> Null]]]
        /\ clone_log' = clone_log \o [k \in 1..Len(D) |->
              [template |-> D[k], tick |-> Len(ticks) + 1, job |-> n + k]]
        /\ sched_dispatched' = sched_dispatched \o [k \in 1..Len(D) |-> n + k]
        /\ sched' = [j \in DOMAIN sched \cup {n + k : k \in 1..Len(D)} |->
                       IF j \in DOMAIN sched THEN sched[j]
                       ELSE sched[D[j - n]]]
        /\ UNCHANGED <<live, snapshots, execs, tasks, revoked, cancel_log,
                       settings, reqs, created, previews, drift_vars,
                       create_log, call>>

\* tasks/bulk.py run_scheduled_jobs, sent by beat every 60 seconds, give
\* or take: dt units after the previous run.  The query of the templates
\* (lines 158-163) names BulkJob.schedule_enabled and
\* BulkJob.cron_expression, which the class does not declare, so the run
\* raises AttributeError before it reads or writes a row.  With the
\* attributes declared, lines 165-199 would clone every due template:
\* a pending job with the template's section and patch (committed), then
\* a pending target per target of the template (a second commit), then
\* run_bulk_job.delay for the clone.
RunScheduledJobs(dt) ==
    LET t == now + dt
        D == DueSeq(1, t)
        n == Len(jobs)
    IN  /\ Len(ticks) < MaxTicks
        /\ now' = t
        /\ ticks' = Append(ticks, [at |-> t, sched |-> sched])
        /\ IF {"schedule_enabled", "cron_expression"} \subseteq BulkJobAttrs
           THEN /\ jobs' = jobs \o [k \in 1..Len(D) |->
                      [status |-> "pending", celery_task_id |-> NoTask,
                       section |-> jobs[D[k]].section,
                       patch_json |-> jobs[D[k]].patch_json,
                       rollback_on_failure |-> FALSE]]
                /\ targets' = targets \o [k \in 1..Len(D) |->
                      [i \in 1..Len(targets[D[k]]) |->
                         [device_id |-> targets[D[k]][i].device_id,
                          status |-> "pending", before_json |-> Null,
                          after_json |-> Null]]]
                /\ clone_log' = clone_log \o [k \in 1..Len(D) |->
                      [template |-> D[k], tick |-> Len(ticks) + 1,
                       job |-> n + k]]
                /\ sched_dispatched' =
                      sched_dispatched \o [k \in 1..Len(D) |-> n + k]
           ELSE UNCHANGED <<jobs, targets, clone_log, sched_dispatched>>
        /\ UNCHANGED <<live, snapshots, execs, tasks, revoked, cancel_log,
                       settings, reqs, created, previews, drift_vars, sched,
                       create_log, call>>

\* CreateBulkJobFails with the job committed before its targets.
CreateBulkJobFailsJobKept(section, patch, device_ids, stage) ==
    /\ Len(create_log) < MaxCreateErrors
    /\ create_log' = Append(create_log, [stage |-> stage, propagated |-> TRUE])
    /\ jobs' = IF stage = "commit"
               THEN Append(jobs,
                      [status |-> "pending", celery_task_id |-> NoTask,
                       section |-> section, patch_json |-> patch,
                       rollback_on_failure |-> FALSE])
               ELSE jobs
    /\ targets' = IF stage = "commit" THEN Append(targets, <<>>) ELSE targets
    /\ UNCHANGED <<live, snapshots, execs, tasks, revoked, cancel_log,
                   settings, reqs, created, previews, drift_vars, now, ticks,
                   sched, clone_log, sched_dispatched, call>>

\* api/v1/bulk.py create_bulk_job when the database refuses a row: the
\* INSERT of the job at session.flush() (line 45) or an INSERT of a target
\* at session.commit() (line 48).  Job and targets are written in one
\* transaction, which ends without a commit; the exception goes to the
\* caller (HTTP 500).
CreateBulkJobFails(section, patch, device_ids, stage) ==
    /\ Len(create_log) < MaxCreateErrors
    /\ create_log' = Append(create_log, [stage |-> stage, propagated |-> TRUE])
    /\ UNCHANGED <<live, jobs, targets, snapshots, execs, tasks, revoked,
                   cancel_log, settings, reqs, created, previews, drift_vars,
                   now, ticks, sched, clone_log, sched_dispatched, call>>

\* ------------------------------------------------- services/diff.py
\* Python objects live on a heap: a sequence of nodes, a reference being
\* an index.  A dict node maps its keys to references; scalars and lists
\* of scalars are nodes of their own, never written to.
None == 0

RECURSIVE Store(_, _), StoreItems(_, _, _, _)
\* The tree laid out on the heap: the heap after it, and its reference.
Store(h, tree) ==
    IF tree.t = "dict"
    THEN StoreItems(h, tree, DOMAIN tree.v, <<>>)
    ELSE [heap |-> Append(h, tree), ref |-> Len(h) + 1]

StoreItems(h, tree, keys, refs) ==
    IF keys = {}
    THEN [heap |-> Append(h, [t |-> "dict", v |-> refs]), ref |-> Len(h) + 1]
    ELSE LET k == CHOOSE x \in keys : TRUE
             r == Store(h, tree.v[k])
         IN  StoreItems(r.heap, tree, keys \ {k}, (k :> r.ref) @@ refs)

\* The tree a reference stands for.
RECURSIVE Deref(_, _)
Deref(h, ref) ==
    IF h[ref].t = "dict"
    THEN Dict([k \in DOMAIN h[ref].v |-> Deref(h, h[ref].v[k])])
    ELSE h[ref]

\* result.get(key)
DictGet(h, ref, key) ==
    IF key \in DOMAIN h[ref].v THEN h[ref].v[key] ELSE None

\* result[key] = value
DictSet(h, ref, key, value) ==
    [h EXCEPT ![ref].v = [k \in DOMAIN @ \cup {key} |->
                            IF k = key THEN value ELSE @[k]]]

RECURSIVE apply_patch_on(_, _, _), patch_items(_, _, _, _)
RECURSIVE patch_items_extending(_, _, _, _)

\* patch_items appending a list of the patch to a list of the base.
patch_items_extending(h, result, patch, keys) ==
    IF keys = {}
    THEN [heap |-> h, ref |-> result]
    ELSE LET key == CHOOSE k \in keys : TRUE
             value == h[patch].v[key]
             cur == DictGet(h, result, key)
         IN  IF h[value].t = "dict" /\ cur # None /\ h[cur].t = "dict"
             THEN LET r == apply_patch_on(h, cur, value)
                  IN  patch_items_extending(DictSet(r.heap, result, key, r.ref),
                                            result, patch, keys \ {key})
             ELSE IF h[value].t = "list" /\ cur # None /\ h[cur].t = "list"
             THEN LET h1 == Append(h, List(h[cur].v \o h[value].v))
                  IN  patch_items_extending(DictSet(h1, result, key, Len(h1)),
                                            result, patch, keys \ {key})
             ELSE patch_items_extending(DictSet(h, result, key, value),
                                        result, patch, keys \ {key})

\* apply_patch, lines 15-20: the loop over patch.items(), over the keys
\* still to come.  A dict of the patch is merged into a dict of the
\* result by a call of apply_patch; any other value is assigned to the
\* key as the object it is.
patch_items(h, result, patch, keys) ==
    IF keys = {}
    THEN [heap |-> h, ref |-> result]
    ELSE LET key == CHOOSE k \in keys : TRUE
             value == h[patch].v[key]
             cur == DictGet(h, result, key)
         IN  IF h[value].t = "dict" /\ cur # None /\ h[cur].t = "dict"
             THEN LET r == apply_patch_on(h, cur, value)
                  IN  patch_items(DictSet(r.heap, result, key, r.ref),
                                  result, patch, keys \ {key})
             ELSE patch_items(DictSet(h, result, key, value),
                              result, patch, keys \ {key})

\* apply_patch_on working on base itself.
apply_patch_in_place(h, base, patch) ==
    patch_items(h, base, patch, DOMAIN h[patch].v)

\* apply_patch, lines 12-20, on the heap: result = dict(base) is a new
\* dict with the keys and the value objects of base; the loop writes to
\* it and it is returned.
apply_patch_on(h, base, patch) ==
    LET h1 == Append(h, h[base])
    IN  patch_items(h1, Len(h1), patch, DOMAIN h[patch].v)

\* The arguments of the calls examined: dicts nested two deep over the
\* keys a and b, with scalars and lists for leaves.
Keys == {"a", "b"}

DictsOver(values) ==
    {Dict(f) : f \in UNION {[K -> values] : K \in SUBSET Keys}}

TreesOver(leaves) == DictsOver(leaves \cup DictsOver(leaves))

BaseTrees == TreesOver({Val(n) : n \in 1..MaxScalar} \cup {List(<<Val(1)>>)})

PatchTrees == TreesOver({Val(MaxScalar), List(<<Val(MaxScalar)>>)})

\* A call apply_patch(base, patch) about to be made, base and patch being
\* separate objects.
PatchCall(base, patch) ==
    LET b == Store(<<>>, base)
        p == Store(b.heap, patch)
    IN  [fn |-> "apply_patch", pc |-> "args", heap0 |-> p.heap,
         heap |-> p.heap, base |-> b.ref, patch |-> p.ref,
         result |-> None, again |-> None]

\* The call returns.
ApplyPatch ==
    /\ call.fn = "apply_patch"
    /\ call.pc = "args"
    /\ LET r == apply_patch_on(call.heap, call.base, call.patch)
       IN  call' = [call EXCEPT !.pc = "returned", !.heap = r.heap,
                                !.result = r.ref]
    /\ UNCHANGED <<live, jobs, targets, snapshots, execs, tasks, revoked,
                   cancel_log, settings, reqs, created, previews, drift_vars,
                   now, ticks, sched, clone_log, sched_dispatched, create_log>>

\* apply_patch(result, patch): the same patch applied to the result.
ApplyPatchAgain ==
    /\ call.fn = "apply_patch"
    /\ call.pc = "returned"
    /\ LET r == apply_patch_on(call.heap, call.result, call.patch)
       IN  call' = [call EXCEPT !.pc = "again", !.heap = r.heap,
                                !.again = r.ref]
    /\ UNCHANGED <<live, jobs, targets, snapshots, execs, tasks, revoked,
                   cancel_log, settings, reqs, created, previews, drift_vars,
                   now, ticks, sched, clone_log, sched_dispatched, create_log>>

\* The elements of a list as DeepDiff compares them under
\* ignore_order=True with report_repetition left at False: the set of the
\* elements' hashes, in which an element counts once however often and
\* wherever it occurs.
ListItems(l) == {l.v[i] : i \in 1..Len(l.v)}

Change(kind, path, item) == [kind |-> kind, path |-> path, item |-> item]

\* DeepDiff(t1, t2, ignore_order=True): the changes it reports, each with
\* its kind and the path of keys to the place.
RECURSIVE DeepDiff(_, _, _)
DeepDiff(t1, t2, path) ==
    IF t1.t # t2.t
    THEN {Change("type_changes", path, Null)}
    ELSE IF t1.t = "dict"
    THEN {Change("dictionary_item_removed", Append(path, k), Null) :
             k \in DOMAIN t1.v \ DOMAIN t2.v}
         \cup {Change("dictionary_item_added", Append(path, k), Null) :
                 k \in DOMAIN t2.v \ DOMAIN t1.v}
         \cup UNION {DeepDiff(t1.v[k], t2.v[k], Append(path, k)) :
                       k \in DOMAIN t1.v \cap DOMAIN t2.v}
    ELSE IF t1.t = "list"
    THEN {Change("iterable_item_removed", path, x) :
             x \in ListItems(t1) \ ListItems(t2)}
         \cup {Change("iterable_item_added", path, x) :
                 x \in ListItems(t2) \ ListItems(t1)}
    ELSE IF t1 # t2
    THEN {Change("values_changed", path, t2)}
    ELSE {}

\* json.loads(diff.to_json()): a dict from the kinds of change reported to
\* the changes of the kind.
ToJson(diff) ==
    LET kinds == {c.kind : c \in diff}
    IN  [k \in kinds |-> {c \in diff : c.kind = k}]

\* services/diff.py compute_diff
compute_diff(before, after) ==
    LET diff == DeepDiff(before, after, <<>>)
    IN  IF diff # {} THEN ToJson(diff) ELSE <<>>

\* The arguments of the calls of compute_diff examined: dicts over the
\* keys a and b of scalars, lists of scalars and dicts of one scalar.
DiffLists ==
    {List(l) : l \in UNION {[1..n -> {Val(1), Val(2)}] : n \in 1..MaxListLen}}

DiffTrees ==
    DictsOver({Val(1), Val(2)} \cup DiffLists
              \cup {Dict("a" :> Val(1)), Dict("a" :> Val(2))})

DiffCall(before, after) ==
    [fn |-> "compute_diff", pc |-> "args", before |-> before,
     after |-> after, result |-> <<>>]

\* The call returns.
ComputeDiff ==
    /\ call.fn = "compute_diff"
    /\ call.pc = "args"
    /\ call' = [call EXCEPT !.pc = "returned",
                            !.result = compute_diff(call.before, call.after)]
    /\ UNCHANGED <<live, jobs, targets, snapshots, execs, tasks, revoked,
                   cancel_log, settings, reqs, created, previews, drift_vars,
                   now, ticks, sched, clone_log, sched_dispatched, create_log>>

Next ==
    \/ \E s \in Sections, p \in Patches, ds \in DeviceLists :
          CreateBulkJob(s, p, ds)
    \/ \E r \in ExecIds, j \in JobIds : ExecRead(r, j)
    \/ \E r \in ExecIds : ExecDispatch(r) \/ ExecCommit(r)
    \/ \E j \in JobIds : CancelJob(j)
    \/ \E tk \in ExecIds : Terminate(tk)
    \/ \E tk \in ExecIds : WorkerStart(tk)
    \/ \E tk \in ExecIds, fetched \in BOOLEAN : TargetBegin(tk, fetched)
    \/ \E tk \in ExecIds, o \in ApplyOutcomes : TargetApplied(tk, o)
    \/ \E tk \in ExecIds : TargetSnapshot(tk)
    \/ \E tk \in ExecIds : WorkerFinish(tk)
    \/ \E tk \in ExecIds : WorkerReturn(tk)
    \/ \E tk \in ExecIds, sent \in BOOLEAN : FireAlert(tk, sent)
    \/ \E tk \in ExecIds : RollbackCheck(tk)
    \/ \E j \in JobIds : SetRollbackOnFailure(j)

Spec == Init /\ [][Next]_vars

\* The snapshot store with its writers: one job on one device, run by one
\* task, the sync and backup requests, the settings and preview.
StoreExecIds == {1}

StoreNext ==
    \/ \E s \in Sections, p \in Patches : CreateBulkJob(s, p, <<"d1">>)
    \/ \E r \in StoreExecIds, j \in JobIds : ExecRead(r, j)
    \/ \E r \in StoreExecIds : ExecDispatch(r) \/ ExecCommit(r)
    \/ \E tk \in StoreExecIds : WorkerStart(tk)
    \/ \E tk \in StoreExecIds : TargetBegin(tk, TRUE)
    \/ \E tk \in StoreExecIds : TargetApplied(tk, "success")
    \/ \E tk \in StoreExecIds : TargetSnapshot(tk)
    \/ \E tk \in StoreExecIds : WorkerFinish(tk)
    \/ \E tk \in StoreExecIds : WorkerReturn(tk)
    \/ \E j \in JobIds : PreviewJob(j)
    \/ \E d \in Registered, n \in Retentions : UpdateBackupSettings(d, n)
    \/ \E r \in ReqIds, op \in StoreOps, d \in DeviceIds, fetched \in BOOLEAN :
          StoreRead(r, op, d, fetched)
    \/ \E r \in ReqIds, fail \in StoreFails : StoreCommit(r, fail)

SpecStore == Init /\ [][StoreNext]_vars

\* The drift detector with the device, the syncs and backups that store
\* its configuration one after the other, and the operator's choice of the
\* baseline.
DriftReqIds == {1}

DriftNext ==
    \/ \E d \in Registered : DeviceChanged(d)
    \/ \E r \in DriftReqIds, op \in {"sync", "backup"}, d \in Registered :
          Len(created) < MaxSnapshots /\ StoreRead(r, op, d, TRUE)
    \/ \E r \in DriftReqIds : StoreCommit(r, "none")
    \/ \E r \in DriftReqIds : ReqLeaves(r)
    \/ \E i \in 1..MaxSnapshots : SetBaseline(i)
    \/ \E d \in Registered : CheckDrift(d)

SpecDrift == Init /\ [][DriftNext]_vars

\* The beat task with the jobs it is to clone: the jobs created through
\* the API, the operator who schedules them, and the ticks.
SchedNext ==
    \/ \E s \in Sections, p \in Patches :
          Len(jobs) < MaxTemplates /\ create_bulk_job(s, p, <<"d1">>)
    \/ \E s \in Sections, p \in Patches, stage \in {"flush", "commit"} :
          CreateBulkJobFails(s, p, <<"d1">>, stage)
    \/ \E j \in 1..MaxTemplates, cron \in Crons : SetSchedule(j, cron)
    \/ \E dt \in 1..MaxDt : RunScheduledJobs(dt)

SpecSched == Init /\ [][SchedNext]_vars

\* One job, executed once, whose worker may die under it.
CrashExecIds == {1}

CrashNext ==
    \/ \E s \in Sections, p \in Patches, ds \in DeviceLists :
          CreateBulkJob(s, p, ds)
    \/ \E r \in CrashExecIds, j \in JobIds : ExecRead(r, j)
    \/ \E r \in CrashExecIds : ExecDispatch(r) \/ ExecCommit(r)
    \/ \E tk \in CrashExecIds : WorkerStart(tk)
    \/ \E tk \in CrashExecIds, fetched \in BOOLEAN : TargetBegin(tk, fetched)
    \/ \E tk \in CrashExecIds, o \in ApplyOutcomes : TargetApplied(tk, o)
    \/ \E tk \in CrashExecIds : TargetSnapshot(tk)
    \/ \E tk \in CrashExecIds : WorkerFinish(tk)
    \/ \E tk \in CrashExecIds : WorkerReturn(tk)
    \/ \E tk \in CrashExecIds, sent \in BOOLEAN : FireAlert(tk, sent)
    \/ \E tk \in CrashExecIds : RollbackCheck(tk)
    \/ \E tk \in CrashExecIds, whole \in BOOLEAN : WorkerLost(tk, whole)
    \/ \E tk \in CrashExecIds : Redeliver(tk)

SpecCrash == Init /\ [][CrashNext]_vars

\* apply_patch called on every pair of a base and a patch.
InitPatch ==
    /\ InitProgram
    /\ call \in {PatchCall(base, patch) :
                   base \in BaseTrees, patch \in PatchTrees}

PatchNext == ApplyPatch \/ ApplyPatchAgain

SpecPatch == InitPatch /\ [][PatchNext]_vars

\* compute_diff called on every pair of trees.
InitDiff ==
    /\ InitProgram
    /\ call \in {DiffCall(before, after) :
                   before \in DiffTrees, after \in DiffTrees}

DiffNext == ComputeDiff

SpecDiff == InitDiff /\ [][DiffNext]_vars

\* The snapshot store of one device with what writes to it, one request
\* after the other: syncs and backups with their trimming, and deletions.
DeleteNext ==
    \/ \E d \in Registered : DeviceChanged(d)
    \/ \E r \in DriftReqIds, op \in StoreOps, d \in Registered :
          Len(created) < MaxSnapshots /\ StoreRead(r, op, d, TRUE)
    \/ \E r \in DriftReqIds : StoreCommit(r, "none")
    \/ \E r \in DriftReqIds : ReqLeaves(r)
    \/ \E d \in Registered, n \in Retentions : UpdateBackupSettings(d, n)
    \/ \E i \in 1..MaxSnapshots : DeleteBackup(i)

SpecDelete == Init /\ [][DeleteNext]_vars

\* The drift detector over a store in which snapshots are deleted too.
DriftDeleteNext ==
    \/ DriftNext
    \/ \E i \in 1..MaxSnapshots : DeleteBackup(i)

SpecDriftDelete == Init /\ [][DriftDeleteNext]_vars

\* ------------------------------------------------------------ claims
TasksOf(j) == {tk \in ExecIds : tasks[tk].pc # "none" /\ tasks[tk].job = j}

\* The worker of task tk has called adapter.apply_patch for target i.
ApplyInvoked(tk, i) ==
    \/ tasks[tk].idx = i /\ tasks[tk].pc \in {"applying", "snapshot"}
    \/ i <= Len(tasks[tk].res) /\ tasks[tk].res[i] = "success"

\* C1: a job is handed to a background worker at most once, so no target
\* of it has the device patch-apply invoked by two tasks.
C1_JobRunsAtMostOnce ==
    \A j \in DOMAIN jobs :
        /\ Cardinality(TasksOf(j)) <= 1
        /\ \A i \in 1..Len(targets[j]) :
             Cardinality({tk \in TasksOf(j) : ApplyInvoked(tk, i)}) <= 1

Rank(status) ==
    CASE status = "pending" -> 0
      [] status = "queued"  -> 1
      [] status = "running" -> 2
      [] OTHER              -> 3

\* C2: a job's status never moves backwards in the order
\* pending < queued < running < terminal: once a worker has written
\* running, completed or partial, no commit returns the job to queued or
\* pending.
C2_StatusNeverBackwards ==
    [][\A j \in DOMAIN jobs :
          jobs[j].status \in {"running", "completed", "partial"}
          => /\ Rank(jobs'[j].status) >= Rank(jobs[j].status)
             /\ jobs'[j].status \notin {"queued", "pending"}]_vars

\* C3: an execute request that finds the job in a status other than pending
\* is rejected, changes neither the job (status, task id) nor any other
\* row, dispatches no task, and stays rejected.
C3_ExecuteRejectedUnlessPending ==
    [][\A r \in ExecIds :
          /\ \A j \in DOMAIN jobs :
                (/\ execs[r].pc = "none"
                 /\ execs'[r].pc # "none"
                 /\ execs'[r].job = j
                 /\ jobs[j].status # "pending")
                => /\ execs'[r].pc = "rejected"
                   /\ jobs' = jobs
                   /\ tasks' = tasks
                   /\ targets' = targets
          /\ execs[r].pc = "rejected"
                => /\ execs'[r] = execs[r]
                   /\ tasks'[r].pc = "none"]_vars

\* C3 witness: a request was rejected on a job that is queued or further.
C3_Witness ==
    \E r \in ExecIds :
        /\ execs[r].pc = "rejected"
        /\ jobs[execs[r].job].status # "pending"
        /\ tasks[r].pc = "none"

\* The step is a cancel request served for job j.
CancelStep(j) ==
    /\ Len(cancel_log') = Len(cancel_log) + 1
    /\ cancel_log'[Len(cancel_log')].job = j

\* C4: cancel on a job whose status is completed, partial, failed or
\* cancelled leaves the status unchanged.
C4_CancelOnlyFromNonTerminal ==
    [][\A j \in DOMAIN jobs :
          (CancelStep(j) /\ jobs[j].status \in Terminal)
          => jobs'[j].status = jobs[j].status]_vars

\* A cancel request has returned for job j, found queued or running.
CancelReturned(j) ==
    \E i \in 1..Len(cancel_log) :
        /\ cancel_log[i].job = j
        /\ cancel_log[i].prev \in {"queued", "running"}

\* The step is the worker of task tk beginning its next target.
TargetBeginStep(tk) ==
    /\ tasks[tk].pc = "loop"
    /\ tasks[tk].idx <= Len(targets[tasks[tk].job])
    /\ tasks'[tk] # tasks[tk]
    /\ tasks'[tk].pc \in {"applying", "loop"}

\* C5: once cancel has returned for a queued or running job, no worker of
\* the job begins a further target.
C5_NoTargetStartsAfterCancel ==
    [][\A tk \in ExecIds :
          (tasks[tk].pc # "none" /\ CancelReturned(tasks[tk].job))
          => ~TargetBeginStep(tk)]_vars
\* The worker of task tk has left the target loop.
Ended == {"finished", "alerted", "done", "raised"}

\* The step leaves the worker of task tk in its device call or past it.
ApplyContinues(tk) == tasks'[tk].pc \in {"applying", "snapshot", "loop"}

C7_NoTargetLeftPending ==
    \A tk \in ExecIds :
        tasks[tk].pc \in Ended
        => \A i \in 1..Len(targets[tasks[tk].job]) :
              targets[tasks[tk].job][i].status \in {"success", "failed"}

\* C7 witness: a worker reached the end after a failed target followed by
\* a successful one.
C7_Witness ==
    \E tk \in ExecIds :
        /\ tasks[tk].pc \in Ended
        /\ tasks[tk].res = <<"failed", "success">>

HasFailure(tk) ==
    \E i \in 1..Len(tasks[tk].res) : tasks[tk].res[i] = "failed"

HasSuccess(tk) ==
    \E i \in 1..Len(tasks[tk].res) : tasks[tk].res[i] = "success"

\* C8: the status a worker writes after its last target is completed if
\* none of its targets failed and partial otherwise, never failed, and what
\* the worker does after that write (alert, rollback) changes no job row.
C8_FinalStatus ==
    [][\A tk \in ExecIds :
          /\ (tasks[tk].pc = "loop" /\ tasks'[tk].pc = "finished")
             => jobs'[tasks[tk].job].status =
                  IF HasFailure(tk) THEN "partial" ELSE "completed"
          /\ (tasks[tk].pc \in {"finished", "alerted"}
              /\ tasks'[tk] # tasks[tk])
             => jobs' = jobs
          /\ \A j \in DOMAIN jobs' : jobs'[j].status # "failed"]_vars

\* C8 witness: a job with rollback_on_failure set, a successful and a failed
\* target, after the worker's last step: the status is partial.
C8_Witness ==
    \E tk \in ExecIds :
        /\ tasks[tk].pc = "raised"
        /\ HasFailure(tk) /\ HasSuccess(tk)
        /\ jobs[tasks[tk].job].rollback_on_failure
        /\ jobs[tasks[tk].job].status = "partial"

\* C9: a run calls fire_alert.delay("job_failed") at most once and only
\* after it has written the final status; a run that has ended has called
\* it exactly once if one of its targets failed and not at all otherwise.
C9_AlertOncePerFailedRun ==
    \A tk \in ExecIds :
        /\ tasks[tk].alerts <= 1
        /\ tasks[tk].alerts > 0 => tasks[tk].pc \in {"alerted", "raised"}
        /\ tasks[tk].pc \in {"done", "raised"}
           => tasks[tk].alerts = IF HasFailure(tk) THEN 1 ELSE 0

\* C9 witness: a run with a failed and a successful target has ended and
\* has emitted its one alert.
C9_Witness ==
    \E tk \in ExecIds :
        /\ tasks[tk].pc = "raised"
        /\ HasFailure(tk) /\ HasSuccess(tk)
        /\ tasks[tk].alerts = 1

\* C10: after the run of a job with rollback_on_failure set that has a
\* failed and a successful target, the device of every successful target
\* returns for the job's section the target's before value.
C10_RollbackRestoresBefore ==
    \A tk \in ExecIds :
        LET j == tasks[tk].job
        IN  (/\ tasks[tk].pc \in {"done", "raised"}
             /\ jobs[j].rollback_on_failure
             /\ HasFailure(tk) /\ HasSuccess(tk))
            => \A i \in 1..Len(targets[j]) :
                  targets[j][i].status = "success"
                  => fetch_config(live[targets[j][i].device_id],
                                  jobs[j].section)
                       = targets[j][i].before_json

\* ------------------------------------------------ claims: the store
\* The snapshots created for (device, section), in the order of creation.
PairHistory(device_id, section) ==
    SelectSeq(created, LAMBDA c : c.device_id = device_id /\ c.section = section)

\* No snapshot so far was created while another snapshot-creating
\* operation was in progress.
NoOverlap == \A i \in 1..Len(created) : created[i].alone

\* C11: when the snapshot-creating operations (bulk apply, sync, backup) do
\* not overlap, the k-th snapshot created for a (device, section) pair has
\* version k: the first has 1 and each later one the previous plus 1.
C11_VersionsSequential ==
    NoOverlap =>
        \A d \in Registered, s \in Sections \cup {"full"} :
            \A k \in 1..Len(PairHistory(d, s)) :
                PairHistory(d, s)[k].version = k

\* The step inserts a snapshot for request r.
StoreInsertStep(r) ==
    /\ reqs[r].pc = "read"
    /\ reqs'[r].pc = "done"
    /\ reqs'[r].failed_in = "none"

DeviceIdsOf(rows, device_id) ==
    [i \in 1..Len(DeviceSnapshots(rows, device_id)) |->
        DeviceSnapshots(rows, device_id)[i].id]

\* The last n elements of a sequence.
LastN(seq, n) ==
    IF Len(seq) <= n THEN seq ELSE SubSeq(seq, Len(seq) - n + 1, Len(seq))

\* C13: a backup (API or task), running with no other writer, that commits
\* for a device with retention R and brings the device's snapshots above R
\* leaves exactly the R most recently created ones, the new one among
\* them.
C13_RetentionKeepsNewest ==
    [][\A r \in ReqIds :
          LET d == reqs[r].device
              ids == Append(DeviceIdsOf(snapshots, d), Len(created) + 1)
          IN  (/\ StoreInsertStep(r)
               /\ ~OtherActive(r, 0)
               /\ reqs[r].version = NextDeviceVersion(d)
               /\ reqs[r].op \in {"trigger", "backup"}
               /\ settings[d] # DefaultRetention
               /\ Len(ids) > settings[d])
              => DeviceIdsOf(snapshots', d) = LastN(ids, settings[d])]_vars

\* C14: when the retention block of a backup fails, the failure is not
\* propagated: the new snapshot is stored and the backup reports success.
C14_TrimFailureSwallowed ==
    [][\A r \in ReqIds :
          (/\ reqs[r].pc = "read"
           /\ reqs'[r].pc = "done"
           /\ reqs'[r].failed_in = "trim")
          => /\ reqs'[r].report = "ok"
             /\ \E i \in 1..Len(snapshots') :
                   /\ snapshots'[i].device_id = reqs[r].device
                   /\ snapshots'[i].version = reqs[r].version
                   /\ snapshots'[i].id = Len(created) + 1]_vars

\* C15: preview changes no job, target, snapshot or device and calls no
\* adapter; for every target its before is the data of the latest
\* snapshot of (device, job.section), or {} without one, in which case
\* after is the patch; after is always the patch merged into before.
C15_PreviewReadOnly ==
    [][previews' # previews =>
          /\ UNCHANGED <<live, jobs, targets, snapshots, execs, tasks,
                         revoked, cancel_log, settings, reqs, created>>
          /\ \E j \in DOMAIN jobs :
               /\ Len(previews') = Len(targets[j])
               /\ \A i \in 1..Len(targets[j]) :
                    LET L == LatestRows(targets[j][i].device_id,
                                        jobs[j].section)
                        p == previews'[i]
                    IN  /\ p.device_id = targets[j][i].device_id
                        /\ IF L = {}
                           THEN p.before = EmptyDict
                                /\ p.after = jobs[j].patch_json
                           ELSE p.before \in
                                  {snapshots[k].data_json : k \in L}
                        /\ p.after = apply_patch(p.before,
                                                 jobs[j].patch_json)]_vars

\* C15 witness: a preview of a job that has run, answered from the
\* snapshot the run stored, and before that run a preview answered with
\* the empty tree would have returned the patch.
C15_Witness ==
    /\ Len(previews) = 1
    /\ previews[1].before # EmptyDict
    /\ \E j \in DOMAIN jobs :
         /\ jobs[j].status = "completed"
         /\ \E k \in LatestRows(previews[1].device_id, jobs[j].section) :
              previews[1].before = snapshots[k].data_json

\* ------------------------------------------------- claims: the detector
\* The step is a drift check of device d.
CheckStep(d) == checked'[d].n = checked[d].n + 1

\* C16: over the drift checks and snapshot creations of a device,
\* fire_alert("drift_detected") is called exactly in the steps that turn
\* the device's flag from false to true, once each; only a check changes
\* the flag; and a check repeated with no new snapshot (and the same
\* baseline) changes neither the flag nor the events.
C16_DriftEventOnFlip ==
    [][\A d \in Registered :
          /\ drift_events'[d] # drift_events[d]
             <=> (~drift_detected[d] /\ drift_detected'[d])
          /\ drift_events'[d] \in {drift_events[d], drift_events[d] + 1}
          /\ drift_detected'[d] # drift_detected[d] => CheckStep(d)
          /\ (/\ CheckStep(d)
              /\ checked[d].n > 0
              /\ checked[d].seen = StoreSeen(d))
             => /\ drift_detected'[d] = drift_detected[d]
                /\ drift_events'[d] = drift_events[d]]_vars

\* C16 witness: after three checks the flag of a device has been set, with
\* its one event, and cleared again by a snapshot equal to the baseline.
C16_Witness ==
    \E d \in Registered :
        /\ checked[d].n = 3
        /\ checked[d].seen = StoreSeen(d)
        /\ drift_events[d] = 1
        /\ ~drift_detected[d]

\* ------------------------------------------------ claims: the beat task
\* The schedule columns of job j at tick k.
ColsAt(k, j) ==
    IF j \in DOMAIN ticks[k].sched THEN ticks[k].sched[j] ELSE NotScheduled

\* Job j was a due template at tick k.
DueAt(k, j) == Due(ColsAt(k, j), ticks[k].at)

\* The clones created from template j at tick k.
ClonesAt(k, j) ==
    {c \in 1..Len(clone_log) :
        clone_log[c].template = j /\ clone_log[c].tick = k}

\* C17: every tick inside the 60-second window after a cron occurrence of
\* a schedule-enabled template creates one clone of it, and a tick outside
\* the window creates none; so the clones of one occurrence are as many as
\* the ticks inside its window.
C17_ClonePerTickInWindow ==
    \A k \in 1..Len(ticks) : \A j \in DOMAIN jobs :
        Cardinality(ClonesAt(k, j)) = IF DueAt(k, j) THEN 1 ELSE 0

\* C18: a tick leaves every template as it is (job row, targets, schedule
\* columns), dispatches nothing for a template's own id and starts no task
\* of its own.
C18_TemplateUntouched ==
    [][Len(ticks') > Len(ticks) =>
          /\ \A j \in DOMAIN jobs :
                Sched(j).schedule_enabled
                => /\ jobs'[j] = jobs[j]
                   /\ targets'[j] = targets[j]
                   /\ j \in DOMAIN sched' /\ sched'[j] = sched[j]
                   /\ \A i \in 1..Len(sched_dispatched') :
                         sched_dispatched'[i] # j
          /\ tasks' = tasks]_vars

\* C18 witness: a tick has run inside the window of a schedule-enabled
\* template, which is still pending.
C18_Witness ==
    \E k \in 1..Len(ticks) : \E j \in DOMAIN jobs :
        /\ DueAt(k, j)
        /\ jobs[j].status = "pending"
        /\ Len(targets[j]) = 1

\* C19: in a tick that meets a template with a malformed cron expression,
\* that template is not cloned, and every due template of the tick is
\* cloned and its clone dispatched.
C19_MalformedCronSkipped ==
    \A k \in 1..Len(ticks) :
        LET bad == {j \in DOMAIN jobs :
                      /\ ColsAt(k, j).schedule_enabled
                      /\ ColsAt(k, j).cron.kind = "bad"}
        IN  bad # {} =>
              /\ \A j \in bad : ClonesAt(k, j) = {}
              /\ \A j \in DOMAIN jobs :
                    DueAt(k, j) =>
                      \E c \in ClonesAt(k, j) :
                         \E i \in 1..Len(sched_dispatched) :
                            sched_dispatched[i] = clone_log[c].job

C21_CrashLeavesJobRunning ==
    [][\A tk \in ExecIds :
          (/\ tasks[tk].crashes > 0
           /\ execs[tk].pc = "done"
           /\ jobs[tasks[tk].job].status = "running")
          => /\ jobs'[tasks[tk].job].status = "running"
             /\ ~TargetBeginStep(tk)]_vars

\* The deep merge as C22 words it: for each key of patch the merge of the
\* two values when both are dicts and the patch's value otherwise; every
\* other key of base with its value.
RECURSIVE ReferenceMerge(_, _)
ReferenceMerge(base, patch) ==
    Dict([k \in DOMAIN base.v \cup DOMAIN patch.v |->
          IF k \notin DOMAIN patch.v THEN base.v[k]
          ELSE IF k \notin DOMAIN base.v THEN patch.v[k]
          ELSE IF base.v[k].t = "dict" /\ patch.v[k].t = "dict"
               THEN ReferenceMerge(base.v[k], patch.v[k])
               ELSE patch.v[k]])

\* The arguments as they were when the call was made.
BaseArg == Deref(call.heap0, call.base)
PatchArg == Deref(call.heap0, call.patch)

\* C22: apply_patch(base, patch) returns the reference deep merge of base
\* and patch (dicts merged key by key, lists and mismatched types replaced
\* by the patch's value, keys absent from patch kept), and base is the
\* same tree after the call as before it.  The operator the job model
\* applies gives the same tree.
C22_ApplyPatchIsDeepMerge ==
    (call.fn = "apply_patch" /\ call.pc # "args")
    => /\ Deref(call.heap, call.result) = ReferenceMerge(BaseArg, PatchArg)
       /\ Deref(call.heap, call.base) = BaseArg
       /\ apply_patch(BaseArg, PatchArg) = ReferenceMerge(BaseArg, PatchArg)

\* C22 witness: a call has returned that merged a dict into a dict which
\* had a key of its own, and replaced a list by the patch's list.
C22_Witness ==
    /\ call.fn = "apply_patch"
    /\ call.pc = "returned"
    /\ BaseArg.v = ("a" :> Dict("a" :> Val(1) @@ "b" :> List(<<Val(1)>>))
                    @@ "b" :> Val(1))
    /\ PatchArg.v = ("a" :> Dict("b" :> List(<<Val(MaxScalar)>>)))
    /\ Deref(call.heap, call.result).v =
          ("a" :> Dict("a" :> Val(1) @@ "b" :> List(<<Val(MaxScalar)>>))
           @@ "b" :> Val(1))

\* C23: apply_patch is idempotent: the patch applied to the result of
\* apply_patch(base, patch) gives that result again.
C23_ApplyPatchIdempotent ==
    (call.fn = "apply_patch" /\ call.pc = "again")
    => Deref(call.heap, call.again) = Deref(call.heap, call.result)

\* C23 witness: the patch was applied a second time to a result that
\* differs from base, in which it had replaced a list by a list.
C23_Witness ==
    /\ call.fn = "apply_patch"
    /\ call.pc = "again"
    /\ Deref(call.heap, call.result) # BaseArg
    /\ \E k \in DOMAIN BaseArg.v \cap DOMAIN PatchArg.v :
          /\ BaseArg.v[k].t = "list"
          /\ PatchArg.v[k].t = "list"

\* The number of places of the list that hold x.
Occurrences(l, x) == Cardinality({i \in 1..Len(l.v) : l.v[i] = x})

\* Two trees are the same up to the order of list elements: dicts with the
\* same keys and values that are the same up to order, lists with the same
\* elements as often, in whatever order, or equal scalars.
RECURSIVE SameUpToOrder(_, _)
SameUpToOrder(a, b) ==
    IF a.t # b.t THEN FALSE
    ELSE IF a.t = "dict"
    THEN /\ DOMAIN a.v = DOMAIN b.v
         /\ \A k \in DOMAIN a.v : SameUpToOrder(a.v[k], b.v[k])
    ELSE IF a.t = "list"
    THEN \A x \in ListItems(a) \cup ListItems(b) :
            Occurrences(a, x) = Occurrences(b, x)
    ELSE a = b

\* C24: compute_diff(a, b) is the empty result exactly when a and b are
\* the same up to the order of list elements: a tree against itself and
\* trees that differ only in list order give {}, trees that differ in
\* anything else give a non-empty result.
C24_DiffEmptyIffSameUpToOrder ==
    (call.fn = "compute_diff" /\ call.pc = "returned")
    => (call.result = <<>> <=> SameUpToOrder(call.before, call.after))

\* C25: cancelled is absorbing: once a job's status is cancelled, no step
\* (the worker writing running, completed or partial, the execute endpoint
\* committing queued) changes it.
C25_CancelledAbsorbing ==
    [][\A j \in DOMAIN jobs :
          jobs[j].status = "cancelled" => jobs'[j].status = "cancelled"]_vars

\* api/v1/bulk.py _job_dict: the job's targets whose stored status is st.
StoredCount(rows, st) ==
    Cardinality({i \in 1..Len(rows) : rows[i].status = st})

\* C26: when the worker finishes a job, its success_count and fail_count
\* (logged, and sent with job_failed) are the numbers of the job's targets
\* stored as success and as failed, and add up to the number of targets.
C26_CountsMatchStoredStatuses ==
    [][\A tk \in ExecIds :
          (tasks[tk].pc = "loop" /\ tasks'[tk].pc = "finished")
          => LET rows == targets'[tasks[tk].job]
             IN  /\ tasks'[tk].success_count = StoredCount(rows, "success")
                 /\ tasks'[tk].fail_count = StoredCount(rows, "failed")
                 /\ tasks'[tk].success_count + tasks'[tk].fail_count
                       = Len(rows)]_vars

\* C27: no version is assigned twice within one (device, section): a
\* newly created snapshot's version is greater than every version assigned
\* to the pair before, whatever was trimmed or deleted in between.
C27_VersionNeverReused ==
    [][Len(created') > Len(created)
       => LET c == created'[Len(created')]
          IN  \A i \in 1..Len(created) :
                 (/\ created[i].device_id = c.device_id
                  /\ created[i].section = c.section)
                 => created[i].version < c.version]_vars

\* The checksums of two rows differ.
Differ(b, l) ==
    Checksum(snapshots[l].data_json) # Checksum(snapshots[b].data_json)

C29_RunningOnlyAfterQueued ==
    [][\A j \in DOMAIN jobs :
          jobs[j].status = "pending" => jobs'[j].status # "running"]_vars

\* The templates: the jobs with schedule_enabled set and a cron expression.
Templates ==
    {j \in DOMAIN jobs : /\ Sched(j).schedule_enabled
                         /\ Sched(j).cron.kind # "null"}

\* C30: a clone is never itself a template: a tick leaves the set of
\* templates as it is, no job it creates has schedule_enabled or a cron
\* expression, it creates at most one job per template, and it clones no
\* clone.
C30_ClonesAreNotTemplates ==
    [][Len(ticks') > Len(ticks) =>
          /\ Templates' = Templates
          /\ \A j \in DOMAIN jobs' \ DOMAIN jobs : Sched(j)' = NotScheduled
          /\ Len(jobs') - Len(jobs) <= Cardinality(Templates)
          /\ \A c \in 1..Len(clone_log') :
                /\ clone_log'[c].tick = Len(ticks')
                   => \A e \in 1..Len(clone_log') :
                         (/\ clone_log'[e].tick = Len(ticks')
                          /\ clone_log'[e].template = clone_log'[c].template)
                         => e = c
                /\ \A e \in 1..Len(clone_log') :
                      clone_log'[e].template # clone_log'[c].job]_vars

\* C30 witness: two ticks have run while a template was due at each of
\* them, and the templates are the jobs the operator scheduled.
C30_Witness ==
    /\ Len(ticks) >= 2
    /\ \E j \in DOMAIN jobs : DueAt(1, j) /\ DueAt(2, j)
    /\ Templates = DOMAIN sched
    /\ Templates # {}

====
